---- MODULE Spec2Model ----
\* Model of src/server.js: the in-memory document store and credit ledger of
\* the Project Brief Agent backend, its request handlers split at their
\* suspension points (every await), and the credit-grant arithmetic in
\* IEEE-754 double precision as JavaScript evaluates it.
EXTENDS Integers, Sequences, FiniteSets, Bags, TLC

\* ---------------------------------------------------------------------
\* Bounds of the model
\* ---------------------------------------------------------------------
\* requests of each kind that arrive in a run of the whole server (Spec)
MaxUploads == 1
MaxCaptures == 1
MaxAnalyzes == 2
\* requests that arrive in a run of one route alone (SpecUpload, SpecCapture)
MaxUploadsAlone == 2
MaxCapturesAlone == 3
\* readings of the clock
MaxClock == 1
\* the largest amount, in cents, of the grant computation alone (SpecGrant)
MaxCents == 3100
MaxCapturesLedger == 2
MaxAnalyzesLedger == 1

\* ---------------------------------------------------------------------
\* Strings are sequences of one-character strings.
\* ---------------------------------------------------------------------
Digits == {"0", "1", "2", "3", "4", "5", "6", "7", "8", "9"}

DigitVal ==
  ("0" :> 0) @@ ("1" :> 1) @@ ("2" :> 2) @@ ("3" :> 3) @@ ("4" :> 4) @@
  ("5" :> 5) @@ ("6" :> 6) @@ ("7" :> 7) @@ ("8" :> 8) @@ ("9" :> 9)

DigitChar ==
  (0 :> "0") @@ (1 :> "1") @@ (2 :> "2") @@ (3 :> "3") @@ (4 :> "4") @@
  (5 :> "5") @@ (6 :> "6") @@ (7 :> "7") @@ (8 :> "8") @@ (9 :> "9")

WhiteSpace == {" "}

\* the longest prefix of s, from position i on, made of characters of set cs:
\* the position after it
RECURSIVE SkipWhile(_, _, _)
SkipWhile(s, i, cs) ==
  IF i <= Len(s) /\ s[i] \in cs THEN SkipWhile(s, i + 1, cs) ELSE i

\* String.prototype.trim
RECURSIVE TrimEnd(_)
TrimEnd(s) ==
  IF Len(s) > 0 /\ s[Len(s)] \in WhiteSpace
  THEN TrimEnd(SubSeq(s, 1, Len(s) - 1))
  ELSE s

trim(s) == TrimEnd(SubSeq(s, SkipWhile(s, 1, WhiteSpace), Len(s)))

\* ---------------------------------------------------------------------
\* IEEE-754 binary64 numbers. A finite non-zero number is a sign, the
\* exponent of its leading bit and its 53 significand bits, most
\* significant first: value = sum of mant[i] * 2^(exp - (i - 1)).
\* Exponents stay far inside the normal range for every input of the model.
\* ---------------------------------------------------------------------
MantBits == 53

NaN == [kind |-> "nan", neg |-> FALSE, exp |-> 0, mant |-> <<>>]
Zero(neg) == [kind |-> "zero", neg |-> neg, exp |-> 0, mant |-> <<>>]

Zeros(n) == [i \in 1..n |-> 0]

Pow2 == <<1, 2, 4, 8, 16, 32, 64, 128, 256, 512, 1024, 2048, 4096, 8192,
          16384, 32768, 65536, 131072, 262144, 524288, 1048576, 2097152,
          4194304, 8388608, 16777216, 33554432, 67108864, 134217728,
          268435456, 536870912, 1073741824>>

\* Arithmetic on bit strings goes through limbs of 8 bits (base 256).

\* the limbs of a bit string whose length is a multiple of 8
ToLimbs(b) ==
  [j \in 1..(Len(b) \div 8) |->
     LET o == 8 * (j - 1)
     IN 128 * b[o + 1] + 64 * b[o + 2] + 32 * b[o + 3] + 16 * b[o + 4]
        + 8 * b[o + 5] + 4 * b[o + 6] + 2 * b[o + 7] + b[o + 8]]

FromLimbs(l) ==
  [i \in 1..(8 * Len(l)) |->
     (l[((i - 1) \div 8) + 1] \div Pow2[8 - ((i - 1) % 8)]) % 2]

\* the 32 bits of a natural below 2^31, and back
ToBits32(n) == [i \in 1..32 |-> IF i = 1 THEN 0 ELSE (n \div Pow2[33 - i]) % 2]

BitsToInt(b) ==
  LET l == ToLimbs(Zeros(32 - Len(b)) \o b)
  IN ((l[1] * 256 + l[2]) * 256 + l[3]) * 256 + l[4]

AnyOne(b) == \E i \in 1..Len(b) : b[i] = 1

\* position of the first 1 bit, Len(b) + 1 when there is none
LeadingOne(b) ==
  IF ~AnyOne(b) THEN Len(b) + 1
  ELSE CHOOSE i \in 1..Len(b) : b[i] = 1 /\ \A j \in 1..(i - 1) : b[j] = 0

\* b + 1 on a bit string; carry is 1 when it overflows the width
IncBits(b) ==
  IF \A i \in 1..Len(b) : b[i] = 1
  THEN [bits |-> Zeros(Len(b)), carry |-> 1]
  ELSE LET p == CHOOSE i \in 1..Len(b) :
                  b[i] = 0 /\ \A j \in (i + 1)..Len(b) : b[j] = 1
       IN [bits |-> [i \in 1..Len(b) |->
                       IF i < p THEN b[i] ELSE IF i = p THEN 1 ELSE 0],
           carry |-> 0]

\* round-to-nearest, ties-to-even, of the exact value whose bits (leading bit
\* of weight 2^e) are followed by a non-zero tail when sticky holds
RoundBits(neg, bits, e, sticky) ==
  LET first == LeadingOne(bits)
      b == SubSeq(bits, first, Len(bits))
      ex == e - (first - 1)
  IN IF Len(b) = 0 THEN Zero(neg)
     ELSE IF Len(b) <= MantBits
     THEN [kind |-> "num", neg |-> neg, exp |-> ex,
           mant |-> b \o Zeros(MantBits - Len(b))]
     ELSE LET head == SubSeq(b, 1, MantBits)
              guard == b[MantBits + 1]
              rest == sticky \/ AnyOne(SubSeq(b, MantBits + 2, Len(b)))
              up == guard = 1 /\ (rest \/ head[MantBits] = 1)
              inc == IncBits(head)
          IN IF ~up
             THEN [kind |-> "num", neg |-> neg, exp |-> ex, mant |-> head]
             ELSE IF inc.carry = 1
             THEN [kind |-> "num", neg |-> neg, exp |-> ex + 1,
                   mant |-> <<1>> \o Zeros(MantBits - 1)]
             ELSE [kind |-> "num", neg |-> neg, exp |-> ex, mant |-> inc.bits]

\* long division of a limb string by a small divisor
RECURSIVE LongDiv(_, _, _, _)
LongDiv(l, i, r, d) ==
  IF i > Len(l) THEN [q |-> <<>>, r |-> r]
  ELSE LET v == 256 * r + l[i]
           t == LongDiv(l, i + 1, v % d, d)
       IN [q |-> <<v \div d>> \o t.q, r |-> t.r]

\* product of limbs l[1..n] and a small factor, plus a carry; the result has
\* one more limb than the operand
RECURSIVE MulLimbs(_, _, _, _)
MulLimbs(l, n, k, carry) ==
  IF n = 0 THEN <<carry>>
  ELSE LET v == l[n] * k + carry
       IN Append(MulLimbs(l, n - 1, k, v \div 256), v % 256)

\* the double nearest to n / d, for naturals n < 2^31 and 0 < d < 2^22
FromRatio(neg, n, d) ==
  LET t == LongDiv(ToLimbs(ToBits32(n) \o Zeros(64)), 1, 0, d)
  IN IF n = 0 THEN Zero(neg)
     ELSE RoundBits(neg, FromLimbs(t.q), 31, t.r # 0)

\* x / k in double arithmetic, k a small positive integer
DivDouble(x, k) ==
  IF x.kind # "num" THEN x
  ELSE LET t == LongDiv(ToLimbs(x.mant \o Zeros(11)), 1, 0, k)
       IN RoundBits(x.neg, FromLimbs(t.q), x.exp, t.r # 0)

\* x * k in double arithmetic, k a positive integer below 256
MulDouble(x, k) ==
  IF x.kind # "num" THEN x
  ELSE LET p == MulLimbs(ToLimbs(Zeros(3) \o x.mant), 7, k, 0)
       IN RoundBits(x.neg, FromLimbs(p), x.exp + 11, FALSE)

\* Math.round: the nearest integer, ties toward +Infinity. The result is
\* [nan, val]; -0 and +0 both give val = 0. Values stay below 2^31.
MathRound(x) ==
  IF x.kind = "nan" THEN [nan |-> TRUE, val |-> 0]
  ELSE IF x.kind = "zero" THEN [nan |-> FALSE, val |-> 0]
  ELSE LET ip == IF x.exp < 0 THEN 0 ELSE BitsToInt(SubSeq(x.mant, 1, x.exp + 1))
           \* the fraction bits, the first of weight 1/2
           fr == IF x.exp < -1 THEN <<0>> \o x.mant
                 ELSE IF x.exp = -1 THEN x.mant
                 ELSE SubSeq(x.mant, x.exp + 2, MantBits)
           half == Len(fr) > 0 /\ fr[1] = 1
           more == Len(fr) > 1 /\ AnyOne(SubSeq(fr, 2, Len(fr)))
       IN IF ~x.neg
          THEN [nan |-> FALSE, val |-> ip + (IF half THEN 1 ELSE 0)]
          ELSE [nan |-> FALSE, val |-> 0 - (ip + (IF half /\ more THEN 1 ELSE 0))]

\* parseFloat on the characters the model uses: leading white space, an
\* optional sign, digits with an optional fraction; anything after the
\* longest such prefix is ignored, and no digit at all gives NaN.
RECURSIVE DigitsToInt(_)
DigitsToInt(s) ==
  IF Len(s) = 0 THEN 0
  ELSE 10 * DigitsToInt(SubSeq(s, 1, Len(s) - 1)) + DigitVal[s[Len(s)]]

RECURSIVE Pow10(_)
Pow10(n) == IF n = 0 THEN 1 ELSE 10 * Pow10(n - 1)

parseFloat(s) ==
  LET i0 == SkipWhile(s, 1, WhiteSpace)
      signed == i0 <= Len(s) /\ s[i0] \in {"+", "-"}
      neg == signed /\ s[i0] = "-"
      i1 == IF signed THEN i0 + 1 ELSE i0
      i2 == SkipWhile(s, i1, Digits)
      dot == i2 <= Len(s) /\ s[i2] = "."
      i3 == IF dot THEN SkipWhile(s, i2 + 1, Digits) ELSE i2
      ipart == SubSeq(s, i1, i2 - 1)
      fpart == IF dot THEN SubSeq(s, i2 + 1, i3 - 1) ELSE <<>>
  IN IF Len(ipart) + Len(fpart) = 0 THEN NaN
     ELSE FromRatio(neg, DigitsToInt(ipart \o fpart), Pow10(Len(fpart)))


\* ---------------------------------------------------------------------
\* Values
\* ---------------------------------------------------------------------
\* a request field, query parameter or response field that is missing
\* (undefined / null in the source): Absent among identifiers, Missing among
\* character strings and document identifiers
Absent == "<absent>"
Missing == <<"<absent>">>

\* v || d on strings: undefined, null and the empty string are falsy
Falsy(v) == v \in {Absent, ""}
OrElse(v, d) == IF Falsy(v) THEN d ELSE v
FalsyText(t) == t \in {Missing, <<>>}
TextOrElse(t, d) == IF FalsyText(t) THEN d ELSE t

Anonymous == "anonymous"
\* account identifiers: ordinary keys of the users object, none of them the
\* name of a property users inherits from Object.prototype
UserIds == {"u1", "u2"}
Accounts == UserIds \cup {Anonymous}

\* texts pdf-parse can extract from an uploaded file
DocTexts == {<<>>, <<" ">>, <<"a", " ">>}

\* Date.now() readings and the document identifiers built from them
Times == 0..MaxClock
DocId(t) == <<"doc-", t>>
DocIds == {DocId(t) : t \in Times}

\* The orders the payment gateway holds: what a successful capture of the
\* order answers with (purchase_units[0].custom_id and
\* purchase_units[0].payments.captures[0].amount.value).
Tokens == {"O1", "O2", "O3", "O4"}
PayPalOrders ==
  ("O1" :> [custom_id |-> "u1", amount |-> <<"0", ".", "3", "0">>]) @@
  ("O2" :> [custom_id |-> "u1", amount |-> <<"0", ".", "6", "0">>]) @@
  ("O3" :> [custom_id |-> "u2", amount |-> <<"0", ".", "9", "0">>]) @@
  ("O4" :> [custom_id |-> Absent, amount |-> Missing])

\* message contents the remote analysis call can answer with
RemoteContents == {Missing, <<"{", "}">>, <<"n", "o">>}

\* JSON.parse on the texts of the model: TRUE when the text parses
JSONParses(t) ==
  LET s == trim(t)
  IN \/ s \in {<<"{", "}">>, <<"[", "]">>}
     \/ /\ Len(s) > 0
        /\ \A i \in 1..Len(s) : s[i] \in Digits
        /\ (Len(s) > 1 => s[1] # "0")

\* ---------------------------------------------------------------------
\* Credit computation of the capture route
\* ---------------------------------------------------------------------
ReferencePrice == 15
ReferenceCredits == 50
DefaultAmount == <<"1", "5", ".", "0", "0">>

\* the default bundle is also granted when the result is 1
CreditsToAddFallbackBelowTwo(amount) ==
  LET r == MathRound(MulDouble(DivDouble(parseFloat(amount), ReferencePrice),
                               ReferenceCredits))
  IN IF r.nan \/ r.val <= 1 THEN ReferenceCredits ELSE r.val

\* Math.round((parseFloat(amount) / 15) * 50) || 50
CreditsToAdd(amount) ==
  LET r == MathRound(MulDouble(DivDouble(parseFloat(amount), ReferencePrice),
                               ReferenceCredits))
  IN IF r.nan \/ r.val = 0 THEN ReferenceCredits ELSE r.val

\* capture?.amount?.value || '15.00', then the credits
GrantFor(amountValue) == CreditsToAdd(TextOrElse(amountValue, DefaultAmount))

\* the grant of each order of the gateway, computed once
GrantOfOrder == [t \in Tokens |-> GrantFor(PayPalOrders[t].amount)]

\* ---------------------------------------------------------------------
\* State
\* ---------------------------------------------------------------------
VARIABLES
  docs,        \* docId -> [text, userId]; the domain is the stored documents
  users,       \* userId -> [credits]; the domain is the accounts created
  clock,       \* the reading Date.now() gives
  paypalEnv,   \* TRUE when PAYPAL_CLIENT_ID and PAYPAL_CLIENT_SECRET are set
  inflight,    \* bag of the handlers suspended at an await, with their locals
  event,       \* the last step taken and the response it sent, if any
  budget,      \* how many more requests of each kind the run lets arrive
  captured,    \* history: token -> number of captures credited for it
  charged,     \* history: account -> number of analyze responses with ok
  ingested,    \* history: number of upload responses with ok
  gAmount,     \* grant computation alone: the amount value of a capture
  gCredits     \* grant computation alone: the credits computed for it

vars == <<docs, users, clock, paypalEnv, inflight, event, budget, captured,
          charged, ingested, gAmount, gCredits>>

grantVars == <<gAmount, gCredits>>
historyVars == <<captured, charged, ingested>>

\* a handler suspended at an await: the route, the await it waits at, and
\* the locals it goes on with
Cont(op, pc, uid, docId, token, text) ==
  [op |-> op, pc |-> pc, uid |-> uid, docId |-> docId, token |-> token,
   text |-> text]

Put(b, c) == b (+) SetToBag({c})
Take(b, c) == b (-) SetToBag({c})
Resume(b, c, d) == Put(Take(b, c), d)
Waiting == BagToSet(inflight)

\* the step just taken: status is the HTTP status of the response it sent,
\* 0 when the handler suspended instead; n is the credit number the response
\* carries; tag tells the responses of one status apart; raw is the raw text
\* an analyze result carries, Missing when the response has none
Event(op, status, uid, docId, n, tag) ==
  [op |-> op, status |-> status, uid |-> uid, docId |-> docId, n |-> n,
   tag |-> tag, raw |-> Missing]

\* the event of a step that sent no response: the handler suspended
Suspended == Event("none", 0, Absent, Missing, 0, "")

NoGrantInput == <<"-">>

Fresh ==
  /\ docs = << >>
  /\ users = << >>
  /\ clock = 0
  /\ inflight = EmptyBag
  /\ event = Suspended
  /\ captured = [t \in Tokens |-> 0]
  /\ charged = [a \in Accounts |-> 0]
  /\ ingested = 0

NoGrant ==
  /\ gAmount = NoGrantInput
  /\ gCredits = 0

Init ==
  /\ Fresh
  /\ NoGrant
  /\ paypalEnv \in BOOLEAN
  /\ budget = [upload |-> MaxUploads, capture |-> MaxCaptures, analyze |-> MaxAnalyzes]

\* ---------------------------------------------------------------------
\* Account ledger (the users map)
\* ---------------------------------------------------------------------
\* users[uid] = users[uid] || { credits: 0 }
EnsureUser(us, uid) ==
  IF uid \in DOMAIN us THEN us ELSE us @@ (uid :> [credits |-> 0])

\* (users[userId] && users[userId].credits) || 0
CreditsOf(us, uid) ==
  IF uid \in DOMAIN us /\ us[uid].credits # 0 THEN us[uid].credits ELSE 0

\* users[uid].credits += n
AddCredits(us, uid, n) ==
  [us EXCEPT ![uid] = [credits |-> us[uid].credits + n]]

\* ---------------------------------------------------------------------
\* POST /api/analyze
\* ---------------------------------------------------------------------
\* docs is a plain object (const docs = {}): docs[docId] finds the documents
\* stored under docId and also the properties every object inherits from
\* Object.prototype, such as docs["constructor"], which are objects (truthy)
\* with neither a text nor a userId property.
InheritedKey == <<"constructor">>

\* !!docs[docId]
DocFound(ds, docId) == docId \in DOMAIN ds \/ docId = InheritedKey

\* docs[docId], when it is truthy
DocRecord(ds, docId) ==
  IF docId \in DOMAIN ds THEN ds[docId] ELSE [text |-> Missing, userId |-> Absent]

\* the owner of the document goes before the account the request names
EffectiveUidOwnerFirst(userId, docId) ==
  OrElse(DocRecord(docs, docId).userId, OrElse(userId, Anonymous))

\* const uid = userId || docs[docId].userId || 'anonymous'
EffectiveUid(userId, docId) ==
  OrElse(userId, OrElse(DocRecord(docs, docId).userId, Anonymous))

\* the credit check off by one: a balance of 0 passes
InsufficientCreditsBelowZero(us, uid) == us[uid].credits < 0

\* (users[uid].credits || 0) <= 0
InsufficientCredits(us, uid) == us[uid].credits <= 0

\* the empty-text check without trim: !fullText
NoExtractableTextUntrimmed(fullText) == fullText = <<>>

\* !fullText.trim()
NoExtractableText(fullText) == trim(fullText) = <<>>

\* the handler up to its first await: the document and credit checks, the
\* empty-text check, then the remote analysis call is started
AnalyzeStart(docId, userId) ==
  /\ budget.analyze > 0
  /\ budget' = [budget EXCEPT !.analyze = @ - 1]
  /\ UNCHANGED <<docs, clock, paypalEnv, historyVars, grantVars>>
  /\ IF docId = Missing \/ ~DocFound(docs, docId)
     THEN /\ event' = Event("analyze", 400, Absent, docId, 0, "not_found")
          /\ UNCHANGED <<users, inflight>>
     ELSE LET uid == EffectiveUid(userId, docId)
              us == EnsureUser(users, uid)
              fullText == TextOrElse(DocRecord(docs, docId).text, <<>>)
          IN /\ users' = us
             /\ IF InsufficientCredits(us, uid)
                THEN /\ event' = Event("analyze", 402, uid, docId, 0, "insufficient")
                     /\ UNCHANGED inflight
                ELSE IF NoExtractableText(fullText)
                THEN /\ event' = Event("analyze", 400, uid, docId, 0, "no_text")
                     /\ UNCHANGED inflight
                ELSE /\ inflight' = Put(inflight, Cont("analyze", "fetch", uid, docId, Absent, Missing))
                     /\ event' = Suspended

\* await fetch(...) of the remote analysis call resolves or rejects
AnalyzeFetched(c, ok) ==
  /\ c \in Waiting /\ c.op = "analyze" /\ c.pc = "fetch"
  /\ UNCHANGED <<docs, users, clock, paypalEnv, budget, historyVars, grantVars>>
  /\ IF ok
     THEN /\ inflight' = Resume(inflight, c, [c EXCEPT !.pc = "json"])
          /\ event' = Suspended
     ELSE /\ inflight' = Take(inflight, c)
          /\ event' = Event("analyze", 500, c.uid, c.docId, 0, "fetch_failed")

\* the deduction reaches every account of the ledger
DeductEveryAccount(us, uid) ==
  [a \in DOMAIN us |-> [credits |-> us[a].credits - 1]]

\* users[uid].credits -= 1
Deduct(us, uid) == AddCredits(us, uid, -1)

\* the parse failure is swallowed without keeping the text:
\* parsed = { parse_error: true }
ParseResultWithoutRaw(text) ==
  IF JSONParses(text) THEN [tag |-> "parsed", raw |-> Missing]
  ELSE [tag |-> "parse_error", raw |-> Missing]

\* try { parsed = JSON.parse(text) }
\* catch (err) { parsed = { parse_error: true, raw: text } }
ParseResult(text) ==
  IF JSONParses(text) THEN [tag |-> "parsed", raw |-> Missing]
  ELSE [tag |-> "parse_error", raw |-> text]

\* await openaiResp.json() resolves with a body whose message content is
\* `content`: the content is parsed, one credit is deducted, the result sent
AnalyzeAnswered(c, content) ==
  /\ c \in Waiting /\ c.op = "analyze" /\ c.pc = "json"
  /\ content \in RemoteContents
  /\ LET text == TextOrElse(content, <<>>)
         parsed == ParseResult(text)
         us == Deduct(users, c.uid)
     IN /\ users' = us
        /\ event' = [Event("analyze", 200, c.uid, c.docId, us[c.uid].credits,
                           parsed.tag) EXCEPT !.raw = parsed.raw]
  /\ inflight' = Take(inflight, c)
  /\ charged' = [charged EXCEPT ![c.uid] = @ + 1]
  /\ UNCHANGED <<docs, clock, paypalEnv, budget, captured, ingested, grantVars>>

\* the credit is deducted before the body is read, so that a request whose
\* body cannot be read answers 500 with the credit gone
AnalyzeBodyFailedCharged(c) ==
  /\ c \in Waiting /\ c.op = "analyze" /\ c.pc = "json"
  /\ inflight' = Take(inflight, c)
  /\ users' = Deduct(users, c.uid)
  /\ event' = Event("analyze", 500, c.uid, c.docId, 0, "body_failed")
  /\ UNCHANGED <<docs, clock, paypalEnv, budget, historyVars, grantVars>>

\* await openaiResp.json() rejects (the body is not JSON), or the body it
\* resolves with is null so that openaiData.choices throws: the catch block
AnalyzeBodyFailed(c) ==
  /\ c \in Waiting /\ c.op = "analyze" /\ c.pc = "json"
  /\ inflight' = Take(inflight, c)
  /\ event' = Event("analyze", 500, c.uid, c.docId, 0, "body_failed")
  /\ UNCHANGED <<docs, users, clock, paypalEnv, budget, historyVars, grantVars>>

\* ---------------------------------------------------------------------
\* GET /api/capture-paypal-order, with capturePayPalOrder and
\* getPayPalAccessToken inlined. Each gateway call is two consecutive awaits,
\* fetch and the read of its body (resp.json(), or resp.text() when resp.ok
\* is false), between which the route touches nothing shared: the pair is
\* one step of the model, with the outcomes of both.
\* ---------------------------------------------------------------------
\* the grant replaces the balance instead of being added to it
CreditOverwrites(us, uid, n) ==
  [EnsureUser(us, uid) EXCEPT ![uid] = [credits |-> n]]

\* users[customId] = users[customId] || { credits: 0 };
\* users[customId].credits += creditsToAdd
Credit(us, uid, n) == AddCredits(EnsureUser(us, uid), uid, n)

\* the account is credited before the gateway's answer is checked, so that a
\* failed capture answers 500 with the grant applied
CaptureFailedCredited(c) ==
  /\ inflight' = Take(inflight, c)
  /\ event' = Event("capture", 500, Absent, Missing, 0, "capture_failed")
  /\ users' = Credit(users, OrElse(PayPalOrders[c.token].custom_id, Anonymous),
                     GrantOfOrder[c.token])
  /\ UNCHANGED captured

\* the catch block of the route
CaptureFailed(c) ==
  /\ inflight' = Take(inflight, c)
  /\ event' = Event("capture", 500, Absent, Missing, 0, "capture_failed")
  /\ UNCHANGED <<users, captured>>

\* the route up to its first await: req.query.token || req.query.orderId,
\* the credentials check of getPayPalAccessToken, then the token request
CaptureStart(qToken, qOrderId) ==
  /\ budget.capture > 0
  /\ budget' = [budget EXCEPT !.capture = @ - 1]
  /\ UNCHANGED <<docs, users, clock, paypalEnv, historyVars, grantVars>>
  /\ LET token == OrElse(qToken, OrElse(qOrderId, Absent))
     IN IF token = Absent
        THEN /\ event' = Event("capture", 400, Absent, Missing, 0, "missing_token")
             /\ UNCHANGED inflight
        ELSE IF ~paypalEnv
        THEN /\ event' = Event("capture", 500, Absent, Missing, 0, "capture_failed")
             /\ UNCHANGED inflight
        ELSE /\ inflight' = Put(inflight, Cont("capture", "token", Absent, Missing, token, Missing))
             /\ event' = Suspended

\* what a gateway call can do: fetch rejects, the response is not ok, the
\* body of an ok response is not JSON, or the call answers
GatewayOutcomes == {"throws", "not_ok", "bad_body", "ok"}

\* the token request of getPayPalAccessToken settles; with the access token
\* capturePayPalOrder starts the capture request
TokenAnswered(c, outcome) ==
  /\ c \in Waiting /\ c.op = "capture" /\ c.pc = "token"
  /\ outcome \in GatewayOutcomes
  /\ UNCHANGED <<docs, clock, paypalEnv, budget, ingested, charged, grantVars>>
  /\ IF outcome = "ok"
     THEN /\ inflight' = Resume(inflight, c, [c EXCEPT !.pc = "capture"])
          /\ event' = Suspended
          /\ UNCHANGED <<users, captured>>
     ELSE CaptureFailed(c)

\* the capture request of capturePayPalOrder settles; with the capture data
\* the route computes the grant, credits the account and redirects
CaptureAnswered(c, outcome) ==
  /\ c \in Waiting /\ c.op = "capture" /\ c.pc = "capture"
  /\ outcome \in GatewayOutcomes
  /\ UNCHANGED <<docs, clock, paypalEnv, budget, ingested, charged, grantVars>>
  /\ IF outcome = "ok"
     THEN LET purchaseUnit == PayPalOrders[c.token]
              customId == OrElse(purchaseUnit.custom_id, Anonymous)
              creditsToAdd == GrantOfOrder[c.token]
              us == Credit(users, customId, creditsToAdd)
          IN /\ users' = us
             /\ captured' = [captured EXCEPT ![c.token] = @ + 1]
             /\ inflight' = Take(inflight, c)
             /\ event' = Event("capture", 302, customId, Missing, us[customId].credits, "success")
     ELSE CaptureFailed(c)

\* ---------------------------------------------------------------------
\* GET /api/user-credits and POST /paypal-webhook
\* ---------------------------------------------------------------------
\* the balance route creates the account it is asked about, as the analyze
\* route does
UserCreditsCreates(qUserId) ==
  /\ LET userId == OrElse(qUserId, Anonymous)
     IN /\ event' = Event("credits", 200, userId, Missing, CreditsOf(users, userId), "")
        /\ users' = EnsureUser(users, userId)
  /\ UNCHANGED <<docs, clock, paypalEnv, inflight, budget, historyVars, grantVars>>

\* const userId = req.query.userId || 'anonymous';
\* const c = (users[userId] && users[userId].credits) || 0
UserCredits(qUserId) ==
  /\ LET userId == OrElse(qUserId, Anonymous)
     IN event' = Event("credits", 200, userId, Missing, CreditsOf(users, userId), "")
  /\ UNCHANGED <<docs, users, clock, paypalEnv, inflight, budget, historyVars, grantVars>>

\* the webhook is wired to the ledger: the event credits the default bundle
PayPalWebhookCredits ==
  /\ event' = Event("webhook", 200, Absent, Missing, 0, "")
  /\ users' = Credit(users, Anonymous, ReferenceCredits)
  /\ UNCHANGED <<docs, clock, paypalEnv, inflight, budget, historyVars, grantVars>>

\* console.log of the event, res.sendStatus(200)
PayPalWebhook ==
  /\ event' = Event("webhook", 200, Absent, Missing, 0, "")
  /\ UNCHANGED <<docs, users, clock, paypalEnv, inflight, budget, historyVars, grantVars>>

\* ---------------------------------------------------------------------
\* POST /api/upload and POST /api/upload-by-url. The download of
\* upload-by-url (fetch, then the read of the body) is one step, and so is
\* the text extraction of both routes (the dynamic import of pdf-parse, then
\* the call of it): the routes touch nothing shared between those awaits.
\* ---------------------------------------------------------------------
\* the catch block of either route (and the 502 answers of upload-by-url)
UploadFailed(c, status) ==
  /\ inflight' = Take(inflight, c)
  /\ event' = Event(c.op, status, Absent, Missing, 0, "upload_failed")
  /\ UNCHANGED <<docs, ingested>>

UploadStart(hasFile, userId) ==
  /\ budget.upload > 0
  /\ budget' = [budget EXCEPT !.upload = @ - 1]
  /\ UNCHANGED <<docs, users, clock, paypalEnv, historyVars, grantVars>>
  /\ IF ~hasFile
     THEN /\ event' = Event("upload", 400, Absent, Missing, 0, "no_file")
          /\ UNCHANGED inflight
     ELSE LET uid == OrElse(userId, Anonymous)
          IN /\ inflight' = Put(inflight, Cont("upload", "read_file", uid, Missing, Absent, <<>>))
             /\ event' = Suspended

\* await fs.promises.readFile(filePath) settles
UploadFileRead(c, ok) ==
  /\ c \in Waiting /\ c.op = "upload" /\ c.pc = "read_file"
  /\ UNCHANGED <<users, clock, paypalEnv, budget, captured, charged, grantVars>>
  /\ IF ok
     THEN /\ inflight' = Resume(inflight, c, [c EXCEPT !.pc = "extract"])
          /\ event' = Suspended
          /\ UNCHANGED <<docs, ingested>>
     ELSE UploadFailed(c, 500)

UrlKinds == {"missing", "wix", "http"}

\* upload-by-url up to its first await: the fileUrl checks, then the download
UploadByUrlStart(fileUrl, userId) ==
  /\ budget.upload > 0
  /\ fileUrl \in UrlKinds
  /\ budget' = [budget EXCEPT !.upload = @ - 1]
  /\ UNCHANGED <<docs, users, clock, paypalEnv, historyVars, grantVars>>
  /\ IF fileUrl = "missing"
     THEN /\ event' = Event("uploadByUrl", 400, Absent, Missing, 0, "no_url")
          /\ UNCHANGED inflight
     ELSE IF fileUrl = "wix"
     THEN /\ event' = Event("uploadByUrl", 400, Absent, Missing, 0, "unfetchable")
          /\ UNCHANGED inflight
     ELSE /\ inflight' = Put(inflight, Cont("uploadByUrl", "download", userId, Missing, Absent, <<>>))
          /\ event' = Suspended

\* what the download can do: fetch rejects (502), the response is not ok
\* (502), reading the body rejects (500), or the bytes arrive
DownloadOutcomes == {"throws", "not_ok", "bad_body", "ok"}

UrlDownloaded(c, outcome) ==
  /\ c \in Waiting /\ c.op = "uploadByUrl" /\ c.pc = "download"
  /\ outcome \in DownloadOutcomes
  /\ UNCHANGED <<users, clock, paypalEnv, budget, captured, charged, grantVars>>
  /\ IF outcome = "ok"
     THEN /\ inflight' = Resume(inflight, c, [c EXCEPT !.pc = "extract"])
          /\ event' = Suspended
          /\ UNCHANGED <<docs, ingested>>
     ELSE UploadFailed(c, IF outcome = "bad_body" THEN 500 ELSE 502)

\* the text extraction settles: text = parsed.text || '', and '' when the
\* import or the call rejects; then the object store upload is started
PdfParsed(c, parsedText) ==
  /\ c \in Waiting /\ c.op \in {"upload", "uploadByUrl"} /\ c.pc = "extract"
  /\ parsedText \in DocTexts \cup {Missing}
  /\ inflight' = Resume(inflight, c, [c EXCEPT !.pc = "s3_put",
                                              !.text = TextOrElse(parsedText, <<>>)])
  /\ event' = Suspended
  /\ UNCHANGED <<docs, users, clock, paypalEnv, budget, historyVars, grantVars>>

\* docs[docId] = { ..., text, userId, ... }
StoreDoc(ds, docId, text, userId) ==
  [d \in DOMAIN ds \cup {docId} |->
     IF d = docId THEN [text |-> text, userId |-> userId] ELSE ds[d]]

\* the object store upload settles; on success the document record is
\* created under `doc-${Date.now()}` and the response sent
S3Stored(c, ok) ==
  /\ c \in Waiting /\ c.op \in {"upload", "uploadByUrl"} /\ c.pc = "s3_put"
  /\ UNCHANGED <<users, clock, paypalEnv, budget, captured, charged, grantVars>>
  /\ IF ok
     THEN LET docId == DocId(clock)
          IN /\ docs' = StoreDoc(docs, docId, c.text, OrElse(c.uid, Anonymous))
             /\ ingested' = ingested + 1
             /\ inflight' = Take(inflight, c)
             /\ event' = Event(c.op, 200, Absent, docId, 0,
                               IF FalsyText(c.text) THEN "no_text" ELSE "has_text")
     ELSE UploadFailed(c, 500)

\* time passes between two steps
Tick ==
  /\ clock < MaxClock
  /\ clock' = clock + 1
  /\ UNCHANGED <<docs, users, paypalEnv, inflight, event, budget, historyVars, grantVars>>

\* ---------------------------------------------------------------------
\* The server
\* ---------------------------------------------------------------------
UserIdInputs == UserIds \cup {Absent}
DocIdInputs == DocIds \cup {Missing, InheritedKey}
TokenInputs == Tokens \cup {Absent}
\* the userId an upload request carries
OwnerInputs == {Absent, "u1"}

AnalyzeNext ==
  \/ \E d \in DocIdInputs, u \in UserIdInputs : AnalyzeStart(d, u)
  \/ \E c \in Waiting, ok \in BOOLEAN : AnalyzeFetched(c, ok)
  \/ \E c \in Waiting, t \in RemoteContents : AnalyzeAnswered(c, t)
  \/ \E c \in Waiting : AnalyzeBodyFailed(c)

CaptureNext ==
  \/ \E t \in TokenInputs, o \in TokenInputs : CaptureStart(t, o)
  \/ \E c \in Waiting, o \in GatewayOutcomes : TokenAnswered(c, o)
  \/ \E c \in Waiting, o \in GatewayOutcomes : CaptureAnswered(c, o)

QueryNext ==
  \/ \E u \in UserIdInputs : UserCredits(u)
  \/ PayPalWebhook

UploadNext ==
  \/ \E f \in BOOLEAN, u \in OwnerInputs : UploadStart(f, u)
  \/ \E c \in Waiting, ok \in BOOLEAN : UploadFileRead(c, ok)
  \/ \E k \in UrlKinds, u \in OwnerInputs : UploadByUrlStart(k, u)
  \/ \E c \in Waiting, o \in DownloadOutcomes : UrlDownloaded(c, o)
  \/ \E c \in Waiting, t \in DocTexts \cup {Missing} : PdfParsed(c, t)
  \/ \E c \in Waiting, ok \in BOOLEAN : S3Stored(c, ok)
  \/ Tick

\* the whole server
Next == UploadNext \/ CaptureNext \/ AnalyzeNext \/ QueryNext

Spec == Init /\ [][Next]_vars

\* the upload routes alone
InitUpload ==
  /\ Fresh
  /\ NoGrant
  /\ paypalEnv = TRUE
  /\ budget = [upload |-> MaxUploadsAlone, capture |-> 0, analyze |-> 0]

SpecUpload == InitUpload /\ [][UploadNext]_vars

\* the capture route alone
InitCapture ==
  /\ Fresh
  /\ NoGrant
  /\ paypalEnv \in BOOLEAN
  /\ budget = [upload |-> 0, capture |-> MaxCapturesAlone, analyze |-> 0]

SpecCapture == InitCapture /\ [][CaptureNext]_vars

\* the whole server with two captures, so that two accounts can hold credits
InitLedger ==
  /\ Fresh
  /\ NoGrant
  /\ paypalEnv = TRUE
  /\ budget = [upload |-> MaxUploads, capture |-> MaxCapturesLedger,
               analyze |-> MaxAnalyzesLedger]

SpecLedger == InitLedger /\ [][Next]_vars

\* ---------------------------------------------------------------------
\* The grant computation alone: one capture amount, and the credits the
\* capture route computes for it
\* ---------------------------------------------------------------------
RECURSIVE Decimal(_)
Decimal(n) ==
  IF n < 10 THEN <<DigitChar[n]>> ELSE Append(Decimal(n \div 10), DigitChar[n % 10])

\* an amount of the gateway, in cents, as the gateway writes it: "4.05"
AmountText(cents) ==
  Decimal(cents \div 100) \o <<".", DigitChar[(cents % 100) \div 10], DigitChar[cents % 10]>>

CentAmounts == {AmountText(c) : c \in 0..MaxCents}

\* amount values that are absent, empty or not a number
BadAmounts == {Missing, <<>>, <<"a">>, <<".">>, <<"-">>, <<" ">>}

InitGrant ==
  /\ Fresh
  /\ paypalEnv = TRUE
  /\ budget = [upload |-> 0, capture |-> 0, analyze |-> 0]
  /\ gAmount \in CentAmounts \cup BadAmounts
  /\ gCredits = 0

\* lines 212-215 of the capture route on the amount value gAmount
ComputeGrant ==
  /\ gCredits = 0
  /\ gCredits' = GrantFor(gAmount)
  /\ UNCHANGED <<docs, users, clock, paypalEnv, inflight, event, budget, historyVars, gAmount>>

SpecGrant == InitGrant /\ [][ComputeGrant]_vars

\* ---------------------------------------------------------------------
\* Quantities the properties speak of
\* ---------------------------------------------------------------------
\* the account a capture of order t credits
OrderAccount(t) == OrElse(PayPalOrders[t].custom_id, Anonymous)

RECURSIVE SumOver(_, _)
SumOver(f, S) ==
  IF S = {} THEN 0
  ELSE LET x == CHOOSE y \in S : TRUE IN f[x] + SumOver(f, S \ {x})

OrdersOf(a) == {t \in Tokens : OrderAccount(t) = a}

\* the credits the captures so far granted to account a
GrantedTo(a) == SumOver([t \in Tokens |-> captured[t] * GrantOfOrder[t]], OrdersOf(a))

\* the same with every captured order counted once
GrantedOnce(a) ==
  SumOver([t \in Tokens |-> IF captured[t] > 0 THEN GrantOfOrder[t] ELSE 0], OrdersOf(a))

\* the balance of account a as the balance route reports it
Balance(a) == CreditsOf(users, a)

\* the analyze requests of account a whose remote call is in flight or has
\* returned and that have not answered yet
RemoteCalls(a) ==
  SumOver([c \in Waiting |-> CopiesIn(c, inflight)],
          {c \in Waiting : c.op = "analyze" /\ c.uid = a})

\* the credits deducted from the balance of account a so far
Deducted(a) == GrantedTo(a) - (IF a \in DOMAIN users THEN users[a].credits ELSE 0)

\* ---------------------------------------------------------------------
\* Properties
\* ---------------------------------------------------------------------

\* C1: two concurrent analyze requests of one account whose balance is 1 when
\* both start never both succeed: an account that was granted one credit in
\* all is never answered two successful analyses.
C1_OneCreditOneAnalysis ==
  \A a \in Accounts : GrantedTo(a) = 1 => charged[a] <= 1

\* C2: every account's balance is a non-negative integer in every reachable
\* state, and neither the balance route nor the remainingCredits of an
\* analyze response reports a negative number.
C2_BalanceNeverNegative ==
  /\ \A a \in DOMAIN users : users[a].credits >= 0
  /\ \A a \in Accounts : Balance(a) >= 0
  /\ (event.op \in {"analyze", "credits"} /\ event.status = 200) => event.n >= 0

\* C3: an analyze request for a stored document whose effective account has
\* balance 0 is answered 402, starts no remote analysis call and leaves every
\* balance as it was.
C3_UnfundedRefused ==
  [][\A d \in DocIds, u \in UserIdInputs :
       (/\ d \in DOMAIN docs
        /\ Balance(EffectiveUid(u, d)) = 0
        /\ AnalyzeStart(d, u))
       => /\ event'.status = 402
          /\ event'.tag = "insufficient"
          /\ inflight' = inflight
          /\ charged' = charged
          /\ \A a \in Accounts : CreditsOf(users', a) = CreditsOf(users, a)]_vars

C3_Witness ==
  /\ event.op = "analyze" /\ event.status = 402
  /\ event.docId \in DOMAIN docs
  /\ Balance(event.uid) = 0

\* C4: the credit of an analyze request is deducted before its remote call
\* is started: whenever remote calls of an account are in flight or have
\* returned, the credits deducted from the account cover them and the
\* analyses already answered.
C4_DebitBeforeRemote ==
  \A a \in Accounts : Deducted(a) >= charged[a] + RemoteCalls(a)

\* C5: a captured order is applied to the ledger once: however often the
\* capture route is called for it with the gateway answering a successful
\* capture, the balance holds its grant once.
C5_OrderCreditedOnce ==
  \A a \in Accounts : Balance(a) = GrantedOnce(a)

\* C6: when the order reference is missing, the token exchange fails or the
\* capture call fails (rejects, answers not ok, or answers no JSON), the
\* capture route answers an explicit failure, no balance changes and no
\* account is created.
C6_FailedCaptureGrantsNothing ==
  [][/\ \A t \in TokenInputs, o \in TokenInputs :
          (/\ OrElse(t, OrElse(o, Absent)) = Absent \/ ~paypalEnv
           /\ CaptureStart(t, o))
          => /\ event'.status = (IF OrElse(t, OrElse(o, Absent)) = Absent THEN 400 ELSE 500)
             /\ users' = users
             /\ inflight' = inflight
     /\ \A c \in Waiting, o \in GatewayOutcomes \ {"ok"} :
          (TokenAnswered(c, o) \/ CaptureAnswered(c, o))
          => /\ event'.status = 500
             /\ users' = users
             /\ c \notin BagToSet(inflight') \/ CopiesIn(c, inflight') < CopiesIn(c, inflight)]_vars

C6_Witness ==
  /\ paypalEnv
  /\ event.op = "capture" /\ event.status = 500
  /\ \E t \in Tokens : captured[t] > 0

\* C7: for every amount of whole cents up to MaxCents the credits granted are
\* round((amount / 15.00) * 50), rounding halves up, and 50 when that is 0 or
\* the amount is absent or no number.
ExactCents(amount) == DigitsToInt(SelectSeq(amount, LAMBDA ch : ch \in Digits))

ExactGrant(amount) ==
  IF amount \in BadAmounts THEN ReferenceCredits
  ELSE LET r == (2 * ReferenceCredits * ExactCents(amount) + 100 * ReferencePrice)
                  \div (2 * 100 * ReferencePrice)
       IN IF r = 0 THEN ReferenceCredits ELSE r

C7_GrantFormula ==
  gCredits # 0 => gCredits = ExactGrant(gAmount)

\* C8: with no analyze request in between, the balance of every account is
\* the sum of the grants of the captures credited to it, whatever the order
\* and interleaving of the captures.
C8_BalanceIsSumOfGrants ==
  \A a \in Accounts : Balance(a) = GrantedTo(a)

C8_Witness ==
  /\ captured["O1"] > 0 /\ captured["O2"] > 0
  /\ Balance("u1") = GrantOfOrder["O1"] + GrantOfOrder["O2"]

\* C9: an analyze request for a stored document whose text is empty or only
\* white space, by an account with a balance of at least 1, is answered 400
\* (no extractable text), starts no remote call and deducts nothing.
IsBlank(t) == \A i \in 1..Len(t) : t[i] \in WhiteSpace

C9_NoTextNoCharge ==
  [][\A d \in DocIds, u \in UserIdInputs :
       (/\ d \in DOMAIN docs
        /\ IsBlank(docs[d].text)
        /\ Balance(EffectiveUid(u, d)) >= 1
        /\ AnalyzeStart(d, u))
       => /\ event'.status = 400
          /\ event'.tag = "no_text"
          /\ inflight' = inflight
          /\ users' = users
          /\ charged' = charged]_vars

C9_Witness ==
  /\ event.op = "analyze" /\ event.status = 400 /\ event.tag = "no_text"
  /\ Balance(event.uid) >= 1

\* C10: every ingestion produces a document identifier no other ingestion
\* produces, and no upload overwrites a stored document: the store holds one
\* document for each upload that was answered ok.
C10_OneDocumentPerIngestion ==
  ingested = Cardinality(DOMAIN docs)

\* C11: the balance route answers 0 for an account that was never credited
\* or debited and the stored balance of any other account, and it is
\* read-only: no balance changes, no account is created, no document changes
\* and no handler is started or resumed.
C11_BalanceQueryReadOnly ==
  [][\A u \in UserIdInputs :
       UserCredits(u) =>
         LET a == IF u = Absent THEN Anonymous ELSE u
         IN /\ event'.op = "credits" /\ event'.status = 200 /\ event'.uid = a
            /\ (GrantedTo(a) = 0 /\ charged[a] = 0) => event'.n = 0
            /\ a \in DOMAIN users => event'.n = users[a].credits
            /\ a \notin DOMAIN users => event'.n = 0
            /\ users' = users
            /\ docs' = docs
            /\ inflight' = inflight]_vars

C11_Witness ==
  /\ event.op = "credits"
  /\ event.uid \in DOMAIN users
  /\ event.n # 0
  /\ \E a \in Accounts : a \notin DOMAIN users

\* C14: an analyze request whose docId is missing or names no stored document
\* is answered 400 (docId missing or not found) before anything else: no
\* account is created or debited and no remote analysis call is started.
C14_UnknownDocumentRefusedFirst ==
  [][\A d \in DocIdInputs, u \in UserIdInputs :
       (/\ d = Missing \/ d \notin DOMAIN docs
        /\ AnalyzeStart(d, u))
       => /\ event'.status = 400
          /\ event'.tag = "not_found"
          /\ users' = users
          /\ inflight' = inflight
          /\ charged' = charged]_vars

\* C12: ledger operations on one account never affect another: whenever a
\* step of the server changes an account (its balance, or whether it exists),
\* the step is a capture answer crediting that account, an analyze request
\* checking that account, or an analysis answer debiting it; so under any
\* interleaving the operations on one account leave every other account as
\* its own operations made it.
ChangedAccount(b) ==
  \/ (b \in DOMAIN users') # (b \in DOMAIN users)
  \/ b \in DOMAIN users /\ users'[b] # users[b]

OperatesOn(b) ==
  \/ event'.op \in {"analyze", "capture"} /\ event'.uid = b
  \/ \E c \in BagToSet(inflight') :
        /\ c.op = "analyze" /\ c.uid = b
        /\ CopiesIn(c, inflight') > CopiesIn(c, inflight)

C12_NoCrossAccountEffect ==
  [][\A b \in Accounts : ChangedAccount(b) => OperatesOn(b)]_vars

C12_Witness ==
  /\ event.op = "analyze" /\ event.status = 200
  /\ \E b \in DOMAIN users : b # event.uid /\ users[b].credits > 0

\* C13: when the content the remote analysis call returns is not valid JSON
\* (or is absent), analyze answers 200 with a result tagged parse_error that
\* carries the raw text, deducts one credit as for any successful analysis,
\* and reports as remainingCredits the balance right after that deduction.
NotJSON == {Missing, <<"n", "o">>}

C13_ParseFailureCharged ==
  [][\A c \in Waiting, t \in NotJSON :
       AnalyzeAnswered(c, t) =>
         /\ event'.op = "analyze" /\ event'.status = 200
         /\ event'.tag = "parse_error"
         /\ event'.raw = (IF t = Missing THEN <<>> ELSE t)
         /\ users'[c.uid].credits = users[c.uid].credits - 1
         /\ \A a \in DOMAIN users \ {c.uid} : users'[a] = users[a]
         /\ event'.n = users'[c.uid].credits
         /\ charged'[c.uid] = charged[c.uid] + 1
         /\ Take(inflight, c) = inflight']_vars

C13_Witness ==
  /\ event.op = "analyze" /\ event.status = 200
  /\ event.tag = "parse_error"
  /\ event.raw = <<"n", "o">>
  /\ event.n = users[event.uid].credits

\* C15: the account analyze checks and debits is the userId of the request
\* when it carries one, otherwise the owner recorded on the document,
\* otherwise "anonymous"; the account whose balance decides between 402 and
\* going on is the account the request is suspended with, and that account is
\* the one decremented and reported when the analysis answers.
ResolvedAccount(u, d) ==
  IF u # Absent THEN u
  ELSE IF d \in DOMAIN docs /\ docs[d].userId # Absent THEN docs[d].userId
  ELSE Anonymous

StoredCredits(us, a) == IF a \in DOMAIN us THEN us[a].credits ELSE 0

C15_EffectiveAccount ==
  [][/\ \A d \in DocIdInputs \ {Missing}, u \in UserIdInputs :
          (DocFound(docs, d) /\ AnalyzeStart(d, u)) =>
            LET a == ResolvedAccount(u, d)
            IN /\ (event'.status = 402) <=> (StoredCredits(users, a) <= 0)
               /\ event'.status # 0 => event'.uid = a
               /\ event'.status = 0 =>
                    inflight' = Put(inflight, Cont("analyze", "fetch", a, d, Absent, Missing))
               /\ \A b \in Accounts \ {a} : StoredCredits(users', b) = StoredCredits(users, b)
     /\ \A c \in Waiting, t \in RemoteContents :
          AnalyzeAnswered(c, t) =>
            /\ event'.uid = c.uid
            /\ StoredCredits(users', c.uid) = StoredCredits(users, c.uid) - 1
            /\ event'.n = StoredCredits(users', c.uid)
            /\ \A b \in Accounts \ {c.uid} : StoredCredits(users', b) = StoredCredits(users, b)]_vars

C15_Witness ==
  /\ event.op = "analyze" /\ event.status = 200
  /\ event.docId \in DOMAIN docs
  /\ event.uid # docs[event.docId].userId

\* C16: a webhook request is acknowledged with 200 and changes neither the
\* ledger nor the document store, nor any handler waiting.
C16_WebhookNoEffect ==
  [][PayPalWebhook =>
       /\ event'.op = "webhook" /\ event'.status = 200
       /\ users' = users
       /\ docs' = docs
       /\ inflight' = inflight]_vars

C16_Witness ==
  /\ event.op = "webhook"
  /\ DOMAIN docs # {}
  /\ \E a \in DOMAIN users : users[a].credits > 0

\* C17: credit conservation: in every reachable state the balance of each
\* account is the credits its successful captures granted minus the number of
\* its analyze requests answered ok; so every ok answer costs one credit and
\* no analyze request answered with an error costs any.
C17_CreditConservation ==
  \A a \in Accounts : StoredCredits(users, a) = GrantedTo(a) - charged[a]

C17_Witness ==
  /\ GrantedTo("u1") > 0
  /\ charged["u1"] > 0
  /\ event.op = "analyze" /\ event.status = 500 /\ event.uid = "u1"

\* C18: the credit grant is monotone in the amount paid: for two amounts
\* a <= b of whole cents up to MaxCents, the credits granted for a are no more
\* than the credits granted for b.
GrantOfCents == [c \in 0..MaxCents |-> GrantFor(AmountText(c))]

C18_GrantMonotone ==
  (gCredits # 0 /\ gAmount \in CentAmounts) =>
    \A b \in 0..MaxCents :
      ExactCents(gAmount) <= b => gCredits <= GrantOfCents[b]

\* C18 as amended: the same for two amounts neither of which is so small
\* that the formula gives 0 credits and the default bundle is granted instead:
\* amounts for which round((amount / 15.00) * 50), halves rounded up, is at
\* least 1.
FormulaGivesCredits(cents) ==
  2 * ReferenceCredits * cents + 100 * ReferencePrice >= 2 * 100 * ReferencePrice

C18_GrantMonotoneAboveFallback ==
  (gCredits # 0 /\ gAmount \in CentAmounts /\ FormulaGivesCredits(ExactCents(gAmount))) =>
    \A b \in 0..MaxCents :
      ExactCents(gAmount) <= b => gCredits <= GrantOfCents[b]

C18_Witness ==
  /\ gAmount \in CentAmounts
  /\ FormulaGivesCredits(ExactCents(gAmount))
  /\ gCredits # 0
  /\ gCredits < GrantOfCents[MaxCents]

====
